---- MODULE Spec2Model ----
(***************************************************************************)
(* The commit-habit gist updater.  The repository holds four variants of   *)
(* one script (collect commit times, bucket them by Beijing hour, render a *)
(* bar chart, overwrite a gist):                                           *)
(*                                                                         *)
(*   "events1"  src/script/update_gist.js   one page of public events,     *)
(*                                          commits = payload.commits||[]  *)
(*   "events3"  src/unnamed/part_000        three pages of events, commit  *)
(*                                          count with the size fallbacks  *)
(*   "searchA"  src/unnamed/part_001:1-147  commit search, total derived   *)
(*                                          at return, env check at load   *)
(*   "searchB"  src/unnamed/part_001:149-304 commit search, total counted  *)
(*                                          per record                     *)
(*                                                                         *)
(* A run is one behaviour.  Every await is two steps: the step that issues *)
(* the remote call and the step in which its answer (a value or an error)  *)
(* arrives.  The synchronous code between two awaits is cut into the steps *)
(* the claims speak about (one record, one page end, render, publish).     *)
(***************************************************************************)
EXTENDS Integers, Sequences, FiniteSets

\* ---------------------------------------------------------------- bounds
\* PER_PAGE is 100 in the source (part_001:16, and the literal 100 at
\* part_001:192/220).  The model scales the page size down: the code only
\* compares a batch's length with it.
PER_PAGE == 2
\* The largest number of events one page of the events API returns here.
MaxEvents == 1
\* The largest commit-list length / size / distinct_size of a push payload.
MaxSize == 3

\* ------------------------------------------------------------- constants
MAX_PAGES == 10
EVENT_PAGES == 3
BAR_WIDTH == 20
\* `undefined`: a payload field that is not there.
Absent == -1

Variants == {"events1", "events3", "searchA", "searchB"}
EventVariants == {"events1", "events3"}
SearchVariants == {"searchA", "searchB"}
Buckets == {"morning", "daytime", "evening", "night"}
Hours == 0 .. 23
\* A payload field is missing, zero, one or large.
FieldValues == {Absent, 0, 1, MaxSize}
\* An activity record: its type and the three payload fields the code reads.
Events == [type : {"PushEvent", "WatchEvent"}, commits : FieldValues,
           size : FieldValues, distinct_size : FieldValues]

VARIABLES
    variant,        \* which script runs
    envOk,          \* GIST_TOKEN and GIST_ID are both set
    pc,             \* where the run is
    page,           \* the loop variable of the page loop
    batchLen,       \* events.length / items.length of the page last fetched
    remaining,      \* records of that page not yet visited by the for-of loop
    stats,          \* the accumulator
    commitCount,    \* const commitCount of the event being processed
    pushEventCount, \* part_000's pushEventCount
    result,         \* what getCommitTimes returned to main (<<>> before)
    markdown,       \* what generateMarkdown returned (<<>> before)
    calls,          \* history: the remote calls issued, in order
    inflight,       \* indices into calls of the calls not yet answered
    failed,         \* history: index into calls of the call that failed, or 0
    recordsSeen,    \* history: number of records in the pages fetched
    exitCode        \* the process exit code, read when pc = "exit"

vars == <<variant, envOk, pc, page, batchLen, remaining, stats, commitCount,
          pushEventCount, result, markdown, calls, inflight, failed,
          recordsSeen, exitCode>>

\* ------------------------------------------------------------ collector
ZeroStats(v) ==
    IF v = "searchA"
    THEN [morning |-> 0, daytime |-> 0, evening |-> 0, night |-> 0]
    ELSE [morning |-> 0, daytime |-> 0, evening |-> 0, night |-> 0, total |-> 0]

\* Mutant: the lower bounds taken exclusive (hour > 6, > 12, > 18).
BucketExclusive(hour) ==
    IF hour > 6 /\ hour < 12 THEN "morning"
    ELSE IF hour > 12 /\ hour < 18 THEN "daytime"
    ELSE IF hour > 18 /\ hour < 24 THEN "evening"
    ELSE "night"

Bucket(hour) ==
    IF hour >= 6 /\ hour < 12 THEN "morning"
    ELSE IF hour >= 12 /\ hour < 18 THEN "daytime"
    ELSE IF hour >= 18 /\ hour < 24 THEN "evening"
    ELSE "night"

\* Mutant: an hour of 0 taken for a missing hour and the record dropped.
AddToBucketDropsMidnight(s, hour, n) ==
    IF hour = 0 THEN s ELSE [s EXCEPT ![Bucket(hour)] = @ + n]

AddToBucket(s, hour, n) == [s EXCEPT ![Bucket(hour)] = @ + n]

Sum(s) == s.morning + s.daytime + s.evening + s.night

\* JavaScript truthiness of a numeric field: undefined and 0 are falsy.
Truthy(x) == x # Absent /\ x # 0

\* Mutant: the chain without its last default (... || payload.distinct_size).
CommitCountNoDefault(payload) ==
    IF payload.commits # Absent /\ payload.commits > 0 THEN payload.commits
    ELSE IF Truthy(payload.size) THEN payload.size
    ELSE IF Truthy(payload.distinct_size) THEN payload.distinct_size
    ELSE 0

\* part_000:60-63
CommitCountFallback(payload) ==
    IF payload.commits # Absent /\ payload.commits > 0 THEN payload.commits
    ELSE IF Truthy(payload.size) THEN payload.size
    ELSE IF Truthy(payload.distinct_size) THEN payload.distinct_size
    ELSE 1

\* update_gist.js:37-38
CommitCountList(payload) ==
    IF payload.commits # Absent THEN payload.commits ELSE 0

CommitCount(v, payload) ==
    IF v = "events3" THEN CommitCountFallback(payload) ELSE CommitCountList(payload)

\* Mutant: the loop condition off by one (page <= MAX_PAGES + 1).
MaxPagesOffByOne(v) == IF v = "events3" THEN EVENT_PAGES + 1 ELSE MAX_PAGES + 1

MaxPages(v) == IF v = "events3" THEN EVENT_PAGES ELSE MAX_PAGES

BatchLimit(v) == IF v \in SearchVariants THEN PER_PAGE ELSE MaxEvents

\* Mutant: the derived total leaves the night bucket out.
ReturnedWithoutNight(v, s) ==
    IF v = "searchA"
    THEN [morning |-> s.morning, daytime |-> s.daytime, evening |-> s.evening,
          night |-> s.night, total |-> s.morning + s.daytime + s.evening]
    ELSE s

\* return stats / return { ...stats, total }
Returned(v, s) ==
    IF v = "searchA"
    THEN [morning |-> s.morning, daytime |-> s.daytime, evening |-> s.evening,
          night |-> s.night, total |-> Sum(s)]
    ELSE s

\* ------------------------------------------------------------- renderer
\* Percents are kept in tenths: "12.5" is 125.  (num / total) * 100 rounded
\* to one decimal by toFixed(1); for every total below 80 the double
\* arithmetic of the source gives the integer result below.
\* Mutant: the percent cut to one decimal instead of rounded.
getPercentTruncated(num, total) ==
    IF total = 0 THEN 0 ELSE (num * 1000) \div total

getPercent(num, total) ==
    IF total = 0 THEN 0 ELSE (num * 2000 + total) \div (2 * total)

\* Mutant: Math.floor in place of Math.round.
FilledFloor(v, percent) ==
    IF v = "searchA"
    THEN (percent * BAR_WIDTH) \div 1000
    ELSE percent \div 50

\* Math.round(percent / 5), and in searchA Math.round((percent / 100) * BAR_WIDTH);
\* Math.round rounds a half up.
Filled(v, percent) ==
    IF v = "searchA"
    THEN (2 * percent * BAR_WIDTH + 1000) \div 2000
    ELSE (percent + 25) \div 50

Repeat(glyph, n) == [i \in 1 .. n |-> glyph]

\* String.prototype.repeat throws a RangeError on a negative count.
BarThrows(v, percent) ==
    Filled(v, percent) < 0 \/ BAR_WIDTH - Filled(v, percent) < 0

getBar(v, percent) ==
    Repeat("full", Filled(v, percent)) \o Repeat("light", BAR_WIDTH - Filled(v, percent))

generateMarkdown(v, s) ==
    [b \in Buckets |->
        [count |-> s[b],
         percent |-> getPercent(s[b], s.total),
         bar |-> getBar(v, getPercent(s[b], s.total))]]

\* ------------------------------------------------------------- the calls
Call(api, p) == [api |-> api, page |-> p]

\* The call the code is awaiting: the one it issued last.
Awaited == Len(calls)

Issue(api, p) ==
    /\ calls' = Append(calls, Call(api, p))
    /\ inflight' = inflight \cup {Len(calls) + 1}

\* The awaited call is answered.
Settle == inflight' = inflight \ {Awaited} /\ calls' = calls

\* Mutant: main's catch logs the error and leaves out process.exit(1).
ExitWithoutCode(code) == pc' = "exit" /\ exitCode' = 0

\* process.exit(code), or main returning with nothing left to run (code 0)
Exit(code) == pc' = "exit" /\ exitCode' = code

\* Mutant: getCommitTimes' catch logs the error and leaves out `throw error`,
\* so the stats gathered so far are returned.
FailsSwallowed(at) ==
    /\ pc = at
    /\ Awaited \in inflight
    /\ failed' = Awaited
    /\ Settle
    /\ IF at = "publish" THEN Exit(1) ELSE pc' = "return" /\ UNCHANGED exitCode
    /\ UNCHANGED <<variant, envOk, page, batchLen, remaining, stats, commitCount,
                   pushEventCount, result, markdown, recordsSeen>>

\* A rejected await: the error is rethrown up to main's catch, which logs it
\* and calls process.exit(1).
Fails(at) ==
    /\ pc = at
    /\ Awaited \in inflight
    /\ failed' = Awaited
    /\ Settle
    /\ Exit(1)
    /\ UNCHANGED <<variant, envOk, page, batchLen, remaining, stats, commitCount,
                   pushEventCount, result, markdown, recordsSeen>>

Init ==
    /\ variant \in Variants
    /\ envOk \in (IF variant = "searchA" THEN BOOLEAN ELSE {TRUE})
    /\ pc = "start"
    /\ page = 1
    /\ batchLen = 0
    /\ remaining = 0
    /\ stats = ZeroStats(variant)
    /\ commitCount = 0
    /\ pushEventCount = 0
    /\ result = <<>>
    /\ markdown = <<>>
    /\ calls = <<>>
    /\ inflight = {}
    /\ failed = 0
    /\ recordsSeen = 0
    /\ exitCode = 0

\* Module load and the first await of main -> getCommitTimes.
Startup ==
    /\ pc = "start"
    /\ IF variant = "searchA" /\ ~envOk
       THEN /\ Exit(1)
            /\ UNCHANGED <<calls, inflight>>
       ELSE IF variant = "events1"
       THEN /\ Issue("page", 1)
            /\ pc' = "fetch"
            /\ UNCHANGED exitCode
       ELSE /\ Issue("auth", 0)
            /\ pc' = "auth"
            /\ UNCHANGED exitCode
    /\ UNCHANGED <<variant, envOk, page, batchLen, remaining, stats, commitCount,
                   pushEventCount, result, markdown, failed, recordsSeen>>

\* users.getAuthenticated() answered; stats created; the page loop starts.
AuthOk ==
    /\ pc = "auth"
    /\ Awaited \in inflight
    /\ Settle
    /\ stats' = ZeroStats(variant)
    /\ pushEventCount' = 0
    /\ page' = 1
    /\ pc' = "loophead"
    /\ UNCHANGED <<variant, envOk, batchLen, remaining, commitCount, result,
                   markdown, failed, recordsSeen, exitCode>>

AuthFail == Fails("auth")

\* for (let page = 1; page <= MAX_PAGES; page++) { await request(page) ...
RequestPage ==
    /\ pc = "loophead"
    /\ IF page <= MaxPages(variant)
       THEN /\ Issue("page", page)
            /\ pc' = "fetch"
       ELSE /\ pc' = "return"
            /\ UNCHANGED <<calls, inflight>>
    /\ UNCHANGED <<variant, envOk, page, batchLen, remaining, stats, commitCount,
                   pushEventCount, result, markdown, failed, recordsSeen, exitCode>>

\* The page arrives with n records.
FetchOk(n) ==
    /\ pc = "fetch"
    /\ Awaited \in inflight
    /\ Settle
    /\ batchLen' = n
    /\ remaining' = n
    /\ recordsSeen' = recordsSeen + n
    /\ stats' = IF variant = "events1" THEN ZeroStats(variant) ELSE stats
    /\ pc' = "loop"
    /\ UNCHANGED <<variant, envOk, page, commitCount, pushEventCount, result,
                   markdown, failed, exitCode>>

FetchFail == Fails("fetch")

\* One activity record, up to stats.total += commitCount.
CountEvent(event) ==
    /\ pc = "loop"
    /\ variant \in EventVariants
    /\ remaining > 0
    /\ IF event.type = "PushEvent"
       THEN /\ pushEventCount' =
                  IF variant = "events3" THEN pushEventCount + 1 ELSE pushEventCount
            /\ commitCount' = CommitCount(variant, event)
            /\ stats' = [stats EXCEPT !.total = @ + CommitCount(variant, event)]
            /\ pc' = "bucket"
            /\ UNCHANGED remaining
       ELSE /\ remaining' = remaining - 1
            /\ UNCHANGED <<pushEventCount, commitCount, stats, pc>>
    /\ UNCHANGED <<variant, envOk, page, batchLen, result, markdown, calls,
                   inflight, failed, recordsSeen, exitCode>>

\* The rest of a push event: its hour in Beijing time picks the bucket.
BucketEvent(hour) ==
    /\ pc = "bucket"
    /\ stats' = AddToBucket(stats, hour, commitCount)
    /\ commitCount' = 0
    /\ remaining' = remaining - 1
    /\ pc' = "loop"
    /\ UNCHANGED <<variant, envOk, page, batchLen, pushEventCount, result,
                   markdown, calls, inflight, failed, recordsSeen, exitCode>>

\* One commit-search record.
CountItem(hour) ==
    /\ pc = "loop"
    /\ variant \in SearchVariants
    /\ remaining > 0
    /\ stats' = AddToBucket(
                   IF variant = "searchB" THEN [stats EXCEPT !.total = @ + 1] ELSE stats,
                   hour, 1)
    /\ remaining' = remaining - 1
    /\ UNCHANGED <<variant, envOk, pc, page, batchLen, commitCount, pushEventCount,
                   result, markdown, calls, inflight, failed, recordsSeen, exitCode>>

\* The for-of loop over the page is done: break, or page++.
EndPage ==
    /\ pc = "loop"
    /\ remaining = 0
    /\ IF variant = "events1"
       THEN pc' = "return" /\ UNCHANGED page
       ELSE IF batchLen = 0
       THEN pc' = "return" /\ UNCHANGED page
       ELSE IF variant \in SearchVariants /\ batchLen < PER_PAGE
       THEN pc' = "return" /\ UNCHANGED page
       ELSE pc' = "loophead" /\ page' = page + 1
    /\ UNCHANGED <<variant, envOk, batchLen, remaining, stats, commitCount,
                   pushEventCount, result, markdown, calls, inflight, failed,
                   recordsSeen, exitCode>>

\* getCommitTimes returns to main.
Return ==
    /\ pc = "return"
    /\ result' = Returned(variant, stats)
    /\ pc' = "collected"
    /\ UNCHANGED <<variant, envOk, page, batchLen, remaining, stats, commitCount,
                   pushEventCount, markdown, calls, inflight, failed, recordsSeen,
                   exitCode>>

\* const markdown = generateMarkdown(stats)
Render ==
    /\ pc = "collected"
    /\ IF \E b \in Buckets : BarThrows(variant, getPercent(result[b], result.total))
       THEN /\ Exit(1)
            /\ UNCHANGED markdown
       ELSE /\ markdown' = generateMarkdown(variant, result)
            /\ pc' = "rendered"
            /\ UNCHANGED exitCode
    /\ UNCHANGED <<variant, envOk, page, batchLen, remaining, stats, commitCount,
                   pushEventCount, result, calls, inflight, failed, recordsSeen>>

\* await updateGist(markdown): octokit.gists.update is called.
Publish ==
    /\ pc = "rendered"
    /\ Issue("gist", 0)
    /\ pc' = "publish"
    /\ UNCHANGED <<variant, envOk, page, batchLen, remaining, stats, commitCount,
                   pushEventCount, result, markdown, failed, recordsSeen, exitCode>>

\* The gist is written; main returns and the process ends with code 0.
UpdateOk ==
    /\ pc = "publish"
    /\ Awaited \in inflight
    /\ Settle
    /\ Exit(0)
    /\ UNCHANGED <<variant, envOk, page, batchLen, remaining, stats, commitCount,
                   pushEventCount, result, markdown, failed, recordsSeen>>

UpdateFail == Fails("publish")

Next ==
    \/ Startup
    \/ AuthOk
    \/ AuthFail
    \/ RequestPage
    \/ \E n \in 0 .. BatchLimit(variant) : FetchOk(n)
    \/ FetchFail
    \/ \E event \in Events : CountEvent(event)
    \/ \E hour \in Hours : BucketEvent(hour)
    \/ \E hour \in Hours : CountItem(hour)
    \/ EndPage
    \/ Return
    \/ Render
    \/ Publish
    \/ UpdateOk
    \/ UpdateFail

Spec == Init /\ [][Next]_vars

\* Synchronous code runs to completion, and every remote call the run awaits
\* is answered, with a value or with an error.
FairSpec == Spec /\ WF_vars(Next)

\* ================================================================ claims

PageCalls == SelectSeq(calls, LAMBDA c : c.api = "page")
GistCalls == SelectSeq(calls, LAMBDA c : c.api = "gist")
\* A record has been taken from the page and is not yet fully counted.
MidRecord == pc = "bucket"

\* C1: the stats getCommitTimes returns satisfy total = morning + daytime +
\* evening + night in every variant, and where total is accumulated on its
\* own (all variants but searchA) the accumulator satisfies it whenever no
\* record is half processed.
C1_TotalIsSum ==
    /\ result # <<>> => result.total = result.morning + result.daytime
                                        + result.evening + result.night
    /\ (variant # "searchA" /\ ~MidRecord) =>
           stats.total = stats.morning + stats.daytime + stats.evening + stats.night

C1_Witness ==
    /\ variant = "events3"
    /\ pc = "collected"
    /\ result.morning = 3
    /\ result.night = 2
    /\ result.total = 5

\* The contribution of the record a step counts: 1 for a search record, the
\* push event's commitCount otherwise.
Contribution == IF variant \in SearchVariants THEN 1 ELSE commitCount

OnlyGrows(b, n) ==
    /\ stats'[b] = stats[b] + n
    /\ \A o \in Buckets \ {b} : stats'[o] = stats[o]

\* A step that counts a record of hour h, against the table of the claim.
C2_RecordStep ==
    (pc = "bucket" \/ (pc = "loop" /\ variant \in SearchVariants)) =>
       \A h \in Hours :
          (CountItem(h) \/ BucketEvent(h)) =>
              /\ (h >= 6 /\ h < 12) => OnlyGrows("morning", Contribution)
              /\ (h >= 12 /\ h < 18) => OnlyGrows("daytime", Contribution)
              /\ (h >= 18 /\ h < 24) => OnlyGrows("evening", Contribution)
              /\ (h >= 0 /\ h < 6) => OnlyGrows("night", Contribution)
              /\ Cardinality({b \in Buckets : stats'[b] # stats[b]}) <= 1
              /\ Contribution >= 1 =>
                     Cardinality({b \in Buckets : stats'[b] > stats[b]}) = 1
              /\ variant \in SearchVariants =>
                     Cardinality({b \in Buckets : stats'[b] = stats[b] + 1}) = 1

ClaimedCount(e) ==
    IF e.commits # Absent /\ e.commits > 0 THEN e.commits
    ELSE IF e.size # Absent /\ e.size > 0 THEN e.size
    ELSE IF e.distinct_size # Absent /\ e.distinct_size > 0 THEN e.distinct_size
    ELSE 1

\* A step that takes a push event adds the claimed count to total.
C3_PushStep ==
    (pc = "loop" /\ variant \in EventVariants) =>
       \A e \in Events :
          (e.type = "PushEvent" /\ CountEvent(e)) =>
              stats'.total = stats.total + ClaimedCount(e)

\* C3: a push event adds to total the length of its commit list; without a
\* list its size; without a size its distinct_size; otherwise 1.  An event
\* with no commit list and size = 3 adds 3.
C3_FallbackChain == [][C3_PushStep]_vars

\* The page fetches so far, and the step that issues a further one.
C4_PagesInOrder ==
    /\ \A i \in 1 .. Len(PageCalls) : PageCalls[i].page = i
    /\ Len(PageCalls) <= (IF variant \in EventVariants THEN 3 ELSE 10)

C4_NextPageStep ==
    (Len(calls') > Len(calls) /\ calls'[Len(calls')].api = "page"
     /\ Len(PageCalls) >= 1) =>
        /\ batchLen > 0
        /\ variant \in SearchVariants => batchLen >= PER_PAGE

\* C4: the page fetches issued are pages 1, 2, 3, ... in that order, at most
\* 3 of them in the event-based variants and at most 10 in the search-based
\* ones; no page is requested after an empty page, and in the search-based
\* variants none after a page shorter than the page size; every run whose
\* calls are answered ends.
C4_BoundedPaging ==
    []C4_PagesInOrder /\ [][C4_NextPageStep]_vars /\ <>(pc = "exit")

C4_Witness ==
    /\ variant = "searchB"
    /\ pc = "exit"
    /\ exitCode = 0
    /\ Len(PageCalls) = 2
    /\ batchLen = 1
    /\ recordsSeen = PER_PAGE + 1

FullCells(bar) == Cardinality({i \in 1 .. Len(bar) : bar[i] = "full"})

\* C5: every rendered bar is exactly 20 cells: filled cells first, then
\* background cells, with filled = round(percent / 100 * 20), half rounded
\* up; percent 0 gives no filled cell and percent 100 gives 20.  Rendering
\* never fails.
C5_BarWidth ==
    /\ (result # <<>> /\ pc # "collected") => markdown # <<>>
    /\ markdown # <<>> =>
         \A b \in Buckets :
            LET bar == markdown[b].bar
                f == FullCells(markdown[b].bar)
                p == markdown[b].percent
            IN  /\ Len(bar) = 20
                /\ \A i \in 1 .. 20 : bar[i] = (IF i <= f THEN "full" ELSE "light")
                /\ 50 * f - 25 <= p
                /\ p < 50 * f + 25
                /\ p = 0 => f = 0
                /\ p = 1000 => f = 20

C5_Witness ==
    /\ markdown # <<>>
    /\ result.total = 3
    /\ markdown["evening"].percent = 1000
    /\ FullCells(markdown["evening"].bar) = 20
    /\ FullCells(markdown["night"].bar) = 0

\* C6: each bucket's percent is count / total * 100 to the nearest tenth,
\* and 0 when total is 0; stats 2, 1, 1, 0 of 4 give 50.0, 25.0, 25.0, 0.0
\* and bars of 10, 5, 5 and 0 filled cells.
C6_Percent ==
    markdown # <<>> =>
       /\ \A b \in Buckets :
            LET p == markdown[b].percent
            IN  /\ markdown[b].count = result[b]
                /\ result.total = 0 => p = 0
                /\ result.total > 0 =>
                      /\ 2 * (p * result.total - 1000 * result[b]) <= result.total
                      /\ 2 * (1000 * result[b] - p * result.total) <= result.total
       /\ (result.morning = 2 /\ result.daytime = 1 /\ result.evening = 1
           /\ result.night = 0 /\ result.total = 4) =>
              /\ markdown["morning"].percent = 500
              /\ markdown["daytime"].percent = 250
              /\ markdown["evening"].percent = 250
              /\ markdown["night"].percent = 0
              /\ FullCells(markdown["morning"].bar) = 10
              /\ FullCells(markdown["daytime"].bar) = 5
              /\ FullCells(markdown["evening"].bar) = 5
              /\ FullCells(markdown["night"].bar) = 0

C6_Witness ==
    /\ markdown # <<>>
    /\ result.morning = 2
    /\ result.daytime = 1
    /\ result.evening = 1
    /\ result.night = 0
    /\ result.total = 4

C6_WitnessZero ==
    /\ markdown # <<>>
    /\ result.total = 0

\* C7: once the identity lookup or a page fetch has failed, that call is the
\* last remote call of the run (no retry, no later page, no gist update),
\* nothing was rendered, and the run has ended with a non-zero exit code.
C7_FailureIsFatal ==
    (failed # 0 /\ calls[failed].api \in {"auth", "page"}) =>
       /\ pc = "exit"
       /\ exitCode # 0
       /\ Len(calls) = failed
       /\ Len(GistCalls) = 0
       /\ markdown = <<>>
       /\ result = <<>>
       /\ inflight = {}

C7_Witness ==
    /\ variant = "searchB"
    /\ failed = 3
    /\ calls[3] = Call("page", 2)
    /\ stats.total = PER_PAGE

\* C8: at most one remote call is in flight; while rendering and publishing
\* no page fetch is outstanding; the gist update is issued only after
\* rendering, at most once; the exit code is 0 exactly when collection,
\* rendering and the gist update all completed, and non-zero when the gist
\* update failed.
C8_Sequential ==
    /\ Cardinality(inflight) <= 1
    /\ Len(GistCalls) <= 1
    /\ markdown # <<>> => (result # <<>> /\ \A i \in inflight : calls[i].api = "gist")
    /\ result # <<>> => \A i \in inflight : calls[i].api = "gist"
    /\ Len(GistCalls) = 1 => (markdown # <<>> /\ calls[Len(calls)].api = "gist")
    /\ pc = "exit" =>
          /\ inflight = {}
          /\ exitCode = 0 <=> (failed = 0 /\ result # <<>> /\ markdown # <<>>
                                /\ Len(GistCalls) = 1)
    /\ (failed # 0 /\ calls[failed].api = "gist") => (pc = "exit" /\ exitCode # 0)

C8_Witness ==
    /\ pc = "exit"
    /\ exitCode = 0
    /\ variant = "events3"
    /\ Len(PageCalls) = 3
    /\ Len(GistCalls) = 1

C8_WitnessPublishFails ==
    /\ pc = "exit"
    /\ failed # 0
    /\ calls[failed].api = "gist"

\* C9: in the search-based variants every record counts 1: the records
\* counted so far are the records of the fetched pages less those still to
\* visit, the returned total is the number of records in all fetched pages,
\* and it never exceeds MAX_PAGES * PER_PAGE.
C9_OnePerRecord ==
    variant \in SearchVariants =>
       /\ stats.morning + stats.daytime + stats.evening + stats.night
             = recordsSeen - remaining
       /\ variant = "searchB" => stats.total = recordsSeen - remaining
       /\ result # <<>> => (result.total = recordsSeen
                             /\ result.total <= MAX_PAGES * PER_PAGE)

C9_Witness ==
    /\ variant = "searchA"
    /\ result # <<>>
    /\ result.total = MAX_PAGES * PER_PAGE
    /\ Len(PageCalls) = MAX_PAGES

\* One step of the for-of loop over a page of events.
C10_CollectStep ==
    (variant \in EventVariants /\ pc \in {"loop", "bucket"}) =>
        /\ \A b \in Buckets \cup {"total"} : stats'[b] >= stats[b]
        /\ (pc = "loop" /\ pc' = "loop" /\ remaining' < remaining) => stats' = stats
        /\ (variant = "events3" /\ pc = "loop" /\ pc' = "bucket") =>
              (stats'.total >= stats.total + 1 /\ commitCount' >= 1)
        /\ (variant = "events3" /\ pc = "bucket") => Sum(stats') >= Sum(stats) + 1

\* C10: in the event-based variants a record that is not a PushEvent leaves
\* the four counters and total as they were; in part_000 a PushEvent adds at
\* least 1 to total and then to its bucket; no counter ever decreases while
\* collecting, and in part_000 total is at least the number of PushEvents.
C10_NonPushUnchanged ==
    [](variant = "events3" => stats.total >= pushEventCount) /\ [][C10_CollectStep]_vars

\* part_000 after three pages: one record that was no PushEvent and two
\* PushEvents, which added 1 and MaxSize.
C10_Witness ==
    /\ variant = "events3"
    /\ pc = "loop"
    /\ page = 3
    /\ recordsSeen = 3
    /\ remaining = 0
    /\ pushEventCount = 2
    /\ stats.total = 1 + MaxSize

====
